---------------------------- MODULE Spec2Model ----------------------------
(***************************************************************************)
(* A model of the encrypted-PHI data layer (app/models/base.py,            *)
(* app/models/patient.py) and of the HIPAA logging pipeline                *)
(* (app/utils/logging.py, app/middleware/audit.py) of the medical billing  *)
(* application.                                                            *)
(***************************************************************************)
EXTENDS Integers, Sequences, FiniteSets, TLC

VARIABLES
    key,        \* settings.ENCRYPTION_KEY of the running process
    clock,      \* what datetime.utcnow() / time.time() returns
    built,      \* TRUE once Patient(...) has been constructed
    ent,        \* the Patient instance: column name -> Python value
    written,    \* history: per PHI attribute, the plaintext last stored through the descriptor
    last,       \* the last operation on the entity, its arguments and its outcome
    codec,      \* one use of the field codec: its input, keys and results
    logdata,    \* a structured value a caller hands to the logging pipeline
    sink,       \* the records the last logging operation emitted, in order
    reqs,       \* AuditMiddleware.dispatch: the requests waiting in call_next
    resp,       \* the last response AuditMiddleware.dispatch returned
    agent,      \* a MedicalBillingAgent: its performance_metrics and what its last call gave
    orch        \* the AgentOrchestrator: its tasks, task_queue and completed_tasks

entVars == <<key, clock, built, ent, written, last>>

codecVars == <<codec>>

\* what the entity operations leave alone
notEntity == <<codec, logdata, sink, reqs, resp, agent, orch>>

\* what the codec operations leave alone
notCodec == <<key, clock, built, ent, written, last, logdata, sink, reqs, resp, agent, orch>>

logVars == <<logdata, sink>>

httpVars == <<reqs, resp>>

vars == <<key, clock, built, ent, written, last, codec, logdata, sink, reqs, resp, agent,
          orch>>

-----------------------------------------------------------------------------
(* Bounds of the model *)

MaxClock == 1

MaxDepth == 4

MaxRequests == 2

\* the tasks an orchestrator creates, and the calls an agent counts
MaxTasks == 2

-----------------------------------------------------------------------------
(* Python values.  Every value is a record of one shape, told apart by tag. *)

NoneV == [tag |-> "none", s |-> "", key |-> "", n |-> 0]

Str(x) == [tag |-> "str", s |-> x, key |-> "", n |-> 0]

IntV(i) == [tag |-> "int", s |-> "", key |-> "", n |-> i]

BoolV(b) == [tag |-> "bool", s |-> "", key |-> "", n |-> IF b THEN 1 ELSE 0]

DateTimeV(t) == [tag |-> "datetime", s |-> "", key |-> "", n |-> t]

\* datetime.isoformat(): a str that renders the instant
IsoStr(t) == [tag |-> "isostr", s |-> "", key |-> "", n |-> t]

\* A Fernet token: a str carrying the plaintext p sealed and authenticated
\* under key k with the random IV iv.
Token(k, p, iv) == [tag |-> "token", s |-> p, key |-> k, n |-> iv]

\* A history marker: the slot was written without going through the descriptor.
RawMark == [tag |-> "raw", s |-> "", key |-> "", n |-> 0]

\* bool(v)
Truthy(v) ==
    CASE v.tag = "none" -> FALSE
      [] v.tag = "str"  -> v.s # ""
      [] v.tag = "int"  -> v.n # 0
      [] v.tag = "bool" -> v.n = 1
      [] OTHER          -> TRUE

IsStr(v) == v.tag \in {"str", "token", "isostr"}

DecimalOf(i) ==
    CASE i = 0 -> "0"
      [] i = 1 -> "1"
      [] i = 7 -> "7"
      [] OTHER -> "9"

\* str(v)
PyStr(v) ==
    CASE v.tag = "int"      -> Str(DecimalOf(v.n))
      [] v.tag = "bool"     -> Str(IF v.n = 1 THEN "True" ELSE "False")
      [] v.tag = "none"     -> Str("None")
      [] v.tag = "datetime" -> IsoStr(v.n)
      [] OTHER              -> v

\* The outcome of a call: a returned value or a raised exception.
Ret(v) == [kind |-> "return", val |-> v, exc |-> "", msg |-> ""]

Raise(e, m) == [kind |-> "raise", val |-> NoneV, exc |-> e, msg |-> m]

-----------------------------------------------------------------------------
(* The cryptographic field codec *)

DefaultKey == "dev-encryption-key-change-in-production"

KeyA == "fernet-key-A"

KeyB == "fernet-key-B"

Keys == {DefaultKey, KeyA, KeyB}

\* Fernet(key) accepts only 32 url-safe base64-encoded bytes; the configured
\* default is 39 characters of non-base64 text and is rejected with ValueError.
IsFernetKey(k) == k \in {KeyA, KeyB}

IVs == {0, 1}

\* Fernet(k).encrypt(p): a token under k with a fresh IV
FernetEncrypt(k, p, iv) == Token(k, p.s, iv)

\* Fernet(k).decrypt(t): the plaintext when t authenticates under k, else InvalidToken
FernetDecrypt(k, t) ==
    IF t.tag = "token" /\ t.key = k
    THEN Ret(Str(t.s))
    ELSE Raise("InvalidToken", "")

encrypt_phi_plain(k, data, iv) == Ret(data)

encrypt_phi(k, data, iv) ==
    IF ~Truthy(data) THEN Ret(data)
    ELSE IF ~IsStr(data) \/ ~IsFernetKey(k)
         THEN Raise("ValueError", "Failed to encrypt sensitive data")
         ELSE Ret(FernetEncrypt(k, data, iv))

decrypt_phi_noop(k, enc) == Ret(enc)

decrypt_phi(k, enc) ==
    IF ~Truthy(enc) THEN Ret(enc)
    ELSE IF ~IsStr(enc) \/ ~IsFernetKey(k)
         THEN Raise("ValueError", "Failed to decrypt sensitive data")
         ELSE IF FernetDecrypt(k, enc).kind = "return"
              THEN FernetDecrypt(k, enc)
              ELSE Raise("ValueError", "Failed to decrypt sensitive data")

\* An exception the try block of the codec catches: its type and str(e)
Caught(type, text) == [type |-> type, text |-> text]

NotCaught == Caught("", "")

KeyRejected == Caught("ValueError", "Fernet key must be 32 url-safe base64-encoded bytes.")

NotAString == Caught("AttributeError", "object has no attribute 'encode'")

\* what the try block of encrypt_phi raises: Fernet(key), then data.encode()
encrypt_caught(k, data) ==
    IF ~Truthy(data) THEN NotCaught
    ELSE IF ~IsFernetKey(k) THEN KeyRejected
    ELSE IF ~IsStr(data) THEN NotAString
    ELSE NotCaught

\* what the try block of decrypt_phi raises: Fernet(key), encrypted_data.encode(),
\* then decrypt (InvalidToken has an empty message)
decrypt_caught(k, enc) ==
    IF ~Truthy(enc) THEN NotCaught
    ELSE IF ~IsFernetKey(k) THEN KeyRejected
    ELSE IF ~IsStr(enc) THEN NotAString
    ELSE IF FernetDecrypt(k, enc).kind = "raise" THEN Caught("InvalidToken", "")
    ELSE NotCaught

printed_verbose(prefix, e) ==
    IF e = NotCaught THEN <<>> ELSE <<<<prefix, e.type, e.text>>>>

\* print(f"<prefix>: {type(e).__name__}"): the lines written to stdout, each
\* line as the texts it is made of
printed(prefix, e) ==
    IF e = NotCaught THEN <<>> ELSE <<<<prefix, e.type>>>>

-----------------------------------------------------------------------------
(* The Patient entity *)

\* Patient._phi_fields, restricted to two of its fifteen names
PhiFields == {"first_name", "social_security_number"}

EncName(f) == f \o "_encrypted"

SlotColumns == {EncName(f) : f \in PhiFields}

BaseColumns == {"id", "created_at", "updated_at", "created_by", "updated_by",
                "is_active", "uuid"}

\* self.__table__.columns: the base columns, the hidden slots, one plain column
Columns == BaseColumns \cup SlotColumns \cup {"race"}

\* EncryptedField.__get__
FieldGet(e, k, f) ==
    IF Truthy(e[EncName(f)]) THEN decrypt_phi(k, e[EncName(f)]) ELSE Ret(NoneV)

FieldSet_str(e, k, f, v, iv) ==
    LET r == encrypt_phi(k, PyStr(v), iv)
    IN IF r.kind = "raise"
       THEN [e |-> e, res |-> r]
       ELSE [e |-> [e EXCEPT ![EncName(f)] = r.val], res |-> Ret(NoneV)]

\* EncryptedField.__set__: the entity afterwards and the outcome
FieldSet(e, k, f, v, iv) ==
    IF v # NoneV
    THEN LET r == encrypt_phi(k, PyStr(v), iv)
         IN IF r.kind = "raise"
            THEN [e |-> e, res |-> r]
            ELSE [e |-> [e EXCEPT ![EncName(f)] = r.val], res |-> Ret(NoneV)]
    ELSE [e |-> [e EXCEPT ![EncName(f)] = NoneV], res |-> Ret(NoneV)]


FieldOfSlot(c) == CHOOSE f \in PhiFields : EncName(f) = c

\* hasattr(self, name): "yes", "no", or "raise" when the descriptor's read raises
\* (hasattr swallows AttributeError only)
HasAttr(e, k, name) ==
    IF name \in PhiFields
    THEN IF FieldGet(e, k, name).kind = "raise" THEN "raise" ELSE "yes"
    ELSE IF name \in Columns THEN "yes" ELSE "no"

\* for key, value in data.items(): if hasattr(self, key): setattr(self, key, value)
\* data is the mapping's items in order; w is the history of descriptor writes.
RECURSIVE SetItems(_, _, _, _, _)
SetItems(e, w, k, data, iv) ==
    IF data = <<>> THEN [e |-> e, w |-> w, res |-> Ret(NoneV)]
    ELSE LET name == data[1][1]
             v    == data[1][2]
             has  == HasAttr(e, k, name)
         IN IF has = "raise"
            THEN [e |-> e, w |-> w, res |-> FieldGet(e, k, name)]
            ELSE IF has = "no"
            THEN SetItems(e, w, k, Tail(data), iv)
            ELSE IF name \in PhiFields
            THEN LET r == FieldSet(e, k, name, v, iv)
                 IN IF r.res.kind = "raise"
                    THEN [e |-> e, w |-> w, res |-> r.res]
                    ELSE SetItems(r.e,
                                  [w EXCEPT ![name] = IF v = NoneV THEN NoneV ELSE PyStr(v)],
                                  k, Tail(data), iv)
            ELSE SetItems([e EXCEPT ![name] = v],
                          IF name \in SlotColumns
                          THEN [w EXCEPT ![FieldOfSlot(name)] = RawMark]
                          ELSE w,
                          k, Tail(data), iv)

\* the attributes hasattr finds on a Patient
KnownAttributes == Columns \cup PhiFields

update_from_dict_strict(e, w, k, data, user_id, now, iv) ==
    IF \E i \in 1..Len(data) : data[i][1] \notin KnownAttributes
    THEN [e |-> e, w |-> w, res |-> Raise("AttributeError", "")]
    ELSE [e |-> [e EXCEPT !["updated_at"] = DateTimeV(now)], w |-> w,
          res |-> Ret(NoneV)]

\* BaseModel.update_from_dict
update_from_dict(e, w, k, data, user_id, now, iv) ==
    LET r == SetItems(e, w, k, data, iv)
    IN IF r.res.kind = "raise" THEN r
       ELSE [e |-> [r.e EXCEPT !["updated_at"] = DateTimeV(now),
                               !["updated_by"] = IF Truthy(user_id) THEN user_id ELSE @],
             w |-> r.w, res |-> Ret(NoneV)]

\* BaseModel.soft_delete
soft_delete(e, user_id, now) ==
    [e EXCEPT !["is_active"] = BoolV(FALSE),
              !["updated_at"] = DateTimeV(now),
              !["updated_by"] = IF Truthy(user_id) THEN user_id ELSE @]

\* value.isoformat() if isinstance(value, datetime)
Serializable(v) == IF v.tag = "datetime" THEN IsoStr(v.n) ELSE v

Redacted == Str("[REDACTED]")

\* BaseModel.to_dict: every table column, then the redaction of the names of
\* _phi_fields that are keys of the result
to_dict(e, k, include_phi) ==
    LET result == [c \in Columns |-> Serializable(e[c])]
    IN [c \in DOMAIN result |->
           IF ~include_phi /\ c \in PhiFields THEN Redacted ELSE result[c]]

-----------------------------------------------------------------------------
(* Structured log data: scalars, mappings (keys and items in order) and lists *)

JStr(x) == [t |-> "str", s |-> x, n |-> 0, keys |-> <<>>, items |-> <<>>]

JNone == [t |-> "none", s |-> "", n |-> 0, keys |-> <<>>, items |-> <<>>]

JBool(b) == [t |-> "bool", s |-> "", n |-> IF b THEN 1 ELSE 0, keys |-> <<>>, items |-> <<>>]

JNum(i) == [t |-> "num", s |-> "", n |-> i, keys |-> <<>>, items |-> <<>>]

\* the str a prefix and a number format to, as in f"req_{ms}"
JFmt(prefix, i) == [t |-> "str", s |-> prefix, n |-> i, keys |-> <<>>, items |-> <<>>]

\* a URL path, as its segments
JPath(segs) == [t |-> "path", s |-> "", n |-> 0, keys |-> segs, items |-> <<>>]

JDict(ks, vs) == [t |-> "dict", s |-> "", n |-> 0, keys |-> ks, items |-> vs]

JList(vs) == [t |-> "list", s |-> "", n |-> 0, keys |-> <<>>, items |-> vs]

\* json.dumps(v): a str holding the serialization of v
JDumps(v) == [t |-> "jsonstr", s |-> "", n |-> 0, keys |-> <<>>, items |-> <<v>>]

EmptyDict == JDict(<<>>, <<>>)

\* bool(v) of structured data
JTruthy(v) ==
    CASE v.t = "none" -> FALSE
      [] v.t = "str"  -> v.s # "" \/ v.n # 0
      [] v.t = "bool" -> v.n = 1
      [] v.t = "num"  -> v.n # 0
      [] v.t \in {"dict", "list"} -> Len(v.items) > 0
      [] OTHER -> TRUE

\* d[k] of a mapping that has the key
JGet(d, k) == d.items[CHOOSE i \in 1..Len(d.keys) : d.keys[i] = k]

JHas(d, k) == \E i \in 1..Len(d.keys) : d.keys[i] = k

\* d[k] = v: an existing key keeps its place, a new key goes last
JPut(d, k, v) ==
    IF JHas(d, k)
    THEN JDict(d.keys, [i \in 1..Len(d.keys) |-> IF d.keys[i] = k THEN v ELSE d.items[i]])
    ELSE JDict(Append(d.keys, k), Append(d.items, v))

\* d.update(u)
RECURSIVE JUpdateFrom(_, _, _)
JUpdateFrom(d, u, i) ==
    IF i > Len(u.keys) THEN d
    ELSE JUpdateFrom(JPut(d, u.keys[i], u.items[i]), u, i + 1)

JUpdate(d, u) == JUpdateFrom(d, u, 1)

\* the deny-list of sanitize_log_data
phi_fields ==
    {"ssn", "social_security_number", "social_security",
     "phone", "phone_number", "telephone",
     "email", "email_address",
     "address", "address_line_1", "address_line_2",
     "city", "state", "zip_code", "zipcode",
     "first_name", "last_name", "middle_name",
     "date_of_birth", "dob", "birth_date",
     "medical_record_number", "mrn",
     "patient_id", "member_id", "subscriber_id",
     "policy_number", "group_number"}

\* key.lower(), on the key names the model uses
Lower(k) ==
    CASE k = "SSN"   -> "ssn"
      [] k = "Email" -> "email"
      [] OTHER       -> k

JRedacted == JStr("[REDACTED]")

sanitize_log_data_all(d) ==
    JDict(d.keys, [i \in 1..Len(d.keys) |-> JRedacted])

\* sanitize_log_data
RECURSIVE sanitize_log_data(_)
sanitize_log_data(d) ==
    JDict(d.keys,
          [i \in 1..Len(d.keys) |->
              LET value == d.items[i]
              IN IF Lower(d.keys[i]) \in phi_fields THEN JRedacted
                 ELSE IF value.t = "dict" THEN sanitize_log_data(value)
                 ELSE IF value.t = "list"
                 THEN JList([j \in 1..Len(value.items) |->
                               IF value.items[j].t = "dict"
                               THEN sanitize_log_data(value.items[j])
                               ELSE value.items[j]])
                 ELSE value])

-----------------------------------------------------------------------------
(* Loggers and audit events *)

\* one record handed to a logging backend or stored as an audit row
Rec(chan, level, event, arg, fields) ==
    [chan |-> chan, level |-> level, event |-> event, arg |-> arg, fields |-> fields]

\* get_logger(name, context): a structlog logger bound to the sanitized context
get_logger(name, context) ==
    [name |-> name,
     ctx |-> IF JTruthy(context) THEN sanitize_log_data(context) ELSE EmptyDict]

\* logger.<level>(event, **kw) of a logger get_logger returned: the bound
\* context and the keyword arguments as given go to the backend
LoggerEmit(logger, level, event, arg, kw) ==
    Rec(logger.name, level, event, arg, JUpdate(logger.ctx, kw))

\* HIPAACompliantLogger.audit: the 'audit' stdlib logger, then the structlog logger
audit(name, event_type, details, user_id, ip_address, user_agent, now) ==
    LET audit_data ==
            JDict(<<"event_type", "details", "user_id", "ip_address",
                    "user_agent", "timestamp", "logger_name">>,
                  <<JStr(event_type), sanitize_log_data(details), user_id,
                    ip_address, user_agent, JFmt("iso", now), JStr(name)>>)
    IN <<Rec("audit", "info", "AUDIT", JStr(event_type), audit_data),
         LoggerEmit(get_logger(name, JNone), "info", "AUDIT", JStr(event_type),
                    audit_data)>>

\* SecurityLogger.log_authentication_event
log_authentication_event(event_type, user_id, ip_address, user_agent, success, details, now) ==
    LET log_data ==
            JDict(<<"event_type", "user_id", "ip_address", "user_agent",
                    "success", "timestamp">>,
                  <<JStr(event_type), user_id, ip_address, user_agent,
                    JBool(success), JFmt("iso", now)>>)
        merged == IF JTruthy(details)
                  THEN JUpdate(log_data, sanitize_log_data(details))
                  ELSE log_data
    IN <<LoggerEmit(get_logger("security", JNone),
                    IF success THEN "info" ELSE "warning",
                    "Security", JStr(event_type), merged)>>

\* SecurityLogger.log_access_event
log_access_event(resource, action, user_id, ip_address, success, details, now) ==
    LET log_data ==
            JDict(<<"resource", "action", "user_id", "ip_address", "success",
                    "timestamp">>,
                  <<resource, JStr(action), user_id, ip_address, JBool(success),
                    JFmt("iso", now)>>)
        merged == IF JTruthy(details)
                  THEN JUpdate(log_data, sanitize_log_data(details))
                  ELSE log_data
    IN <<LoggerEmit(get_logger("security", JNone),
                    IF success THEN "info" ELSE "warning",
                    "Access", resource, merged)>>

\* AuditMixin.log_access: the AuditLog row it builds and returns
log_access(e, user_id, action, details, ip, user_agent) ==
    <<Rec("AuditLog", "row", "", JNone,
          JDict(<<"user_id", "table_name", "record_id", "action", "details",
                  "ip_address", "user_agent">>,
                <<user_id, JStr("patients"),
                  IF e["id"].tag = "int" THEN JNum(e["id"].n) ELSE JNone,
                  JStr(action),
                  IF JTruthy(details) THEN JDumps(details) ELSE JNone,
                  ip, user_agent>>))>>

\* the nesting depth of a structured value
RECURSIVE JDepth(_)
JDepth(v) ==
    IF Len(v.items) = 0 THEN 0
    ELSE 1 + JDepth(v.items[CHOOSE i \in 1..Len(v.items) :
                       \A j \in 1..Len(v.items) :
                           JDepth(v.items[j]) <= JDepth(v.items[i])])

-----------------------------------------------------------------------------
(* AuditMiddleware *)

sensitive_paths ==
    {<<"api", "v1", "patients">>, <<"api", "v1", "claims">>,
     <<"api", "v1", "crewai", "agents", "execute">>,
     <<"api", "v1", "crewai", "crews", "execute">>}

\* q in p, at the granularity of path segments
Contains(p, q) ==
    \E i \in 0..(Len(p) - Len(q)) : SubSeq(p, i + 1, i + Len(q)) = q

\* AuditMiddleware._is_sensitive_path
is_sensitive_path(path) == \E sp \in sensitive_paths : Contains(path, sp)

\* AuditMiddleware._extract_user_id
extract_user_id(bearer) ==
    IF bearer THEN JStr("authenticated_user") ELSE JStr("anonymous")

IdleRequest ==
    [pc |-> "idle", path |-> <<>>, query |-> EmptyDict, bearer |-> FALSE, start |-> 0]

\* what dispatch gives its caller: a response, or (exc not "") an exception
NoResponse == [status |-> 0, headers |-> EmptyDict, exc |-> ""]

Response(status, headers) == [status |-> status, headers |-> headers, exc |-> ""]

Raised(e) == [status |-> 0, headers |-> EmptyDict, exc |-> e]

ClientIp == JStr("10.0.0.1")

middleware_logger == get_logger("middleware.audit", JNone)

\* dispatch up to `await call_next(request)`: the "Request started" record
dispatch_started(path, query, bearer, now) ==
    LET audit_data ==
            JDict(<<"request_id", "method", "path", "query_params", "client_ip",
                    "user_agent", "user_id", "timestamp", "is_sensitive">>,
                  <<JFmt("req_", now), JStr("GET"), JPath(path), query, ClientIp,
                    JStr("agent"), extract_user_id(bearer), JNum(now),
                    JBool(is_sensitive_path(path))>>)
    IN <<LoggerEmit(middleware_logger, "info", "Request started", JNone,
                    JDict(<<"extra">>, <<audit_data>>))>>

\* what a handler, or a middleware further in, gives call_next: a response with
\* its status and headers, or (raised) an exception with the text of str(e)
Outcome(raised, status, error, headers) ==
    [raised |-> raised, status |-> status, error |-> error, headers |-> headers]

security_headers ==
    JDict(<<"X-Content-Type-Options", "X-Frame-Options", "X-XSS-Protection",
            "Strict-Transport-Security", "Content-Security-Policy",
            "Referrer-Policy">>,
          <<JStr("nosniff"), JStr("DENY"), JStr("1; mode=block"),
            JStr("max-age=31536000; includeSubDomains"),
            JStr("default-src 'self'"), JStr("strict-origin-when-cross-origin")>>)

\* SecurityMiddleware.max_request_size
max_request_size == 10485760

\* int(content_length) of the header values the model uses; -1 where int() raises
IntOf(cl) ==
    CASE cl = JStr("12")       -> 12
      [] cl = JStr("99999999") -> 99999999
      [] OTHER                 -> -1

security_middleware_logger == get_logger("middleware.security", JNone)

\* SecurityMiddleware.dispatch around the handler whose outcome is out: the
\* records it logs and what it gives its caller
security_dispatch(content_length, out) ==
    IF JTruthy(content_length) /\ IntOf(content_length) = -1
    THEN [logs |-> <<>>,
          out |-> Outcome(TRUE, 0, "invalid literal for int() with base 10", EmptyDict)]
    ELSE IF JTruthy(content_length) /\ IntOf(content_length) > max_request_size
    THEN [logs |-> <<LoggerEmit(security_middleware_logger, "warning",
                                "Request size too large", content_length, EmptyDict)>>,
          out |-> Outcome(FALSE, 413, "", EmptyDict)]
    ELSE IF out.raised
    THEN [logs |-> <<LoggerEmit(security_middleware_logger, "error",
                                "Request processing error", JStr(out.error), EmptyDict)>>,
          out |-> Outcome(FALSE, 500, "", EmptyDict)]
    ELSE [logs |-> <<>>,
          out |-> Outcome(FALSE, out.status, "",
                          JPut(JUpdate(out.headers, security_headers),
                               "X-Process-Time", JStr("0.0")))]

\* the logger calls of dispatch after call_next that complete, when the sink
\* raises in the call at position fail (0: in none)
LogCalls(calls, fail) ==
    IF fail = 0 \/ fail > Len(calls) THEN calls ELSE SubSeq(calls, 1, fail - 1)

\* success, as a constant, whatever call_next did
dispatch_success_always(out) == TRUE

\* success as dispatch sets it around `await call_next(request)`
dispatch_success(out) == ~out.raised

\* dispatch after call_next: out.raised tells whether call_next raised,
\* out.status the status of its response, out.error the text of the exception;
\* fail is the position of the logger call that raises (0: none does)
dispatch_finished(r, out, now, fail) ==
    LET request_id == JFmt("req_", r.start)
        status == IF out.raised THEN 500 ELSE out.status
        error_message == IF out.raised THEN JStr(out.error) ELSE JNone
        failed == IF out.raised
                  THEN <<LoggerEmit(middleware_logger, "error",
                                    "Request processing failed", JStr(out.error),
                                    EmptyDict)>>
                  ELSE <<>>
        process_time == JNum(now - r.start)
        access == IF is_sensitive_path(r.path)
                  THEN log_access_event(JPath(r.path), "get",
                                        extract_user_id(r.bearer), ClientIp,
                                        dispatch_success(out),
                                        JDict(<<"request_id", "status_code",
                                                "process_time", "error">>,
                                              <<request_id, JNum(status),
                                                process_time, error_message>>),
                                        now)
                  ELSE <<>>
        headers == IF out.raised
                   THEN JDict(<<"content-length">>, <<JStr("33")>>)
                   ELSE out.headers
        response_audit_data ==
            LET base == JDict(<<"request_id", "status_code", "process_time",
                                "success", "response_size">>,
                              <<request_id, JNum(status), process_time,
                                JBool(~out.raised),
                                IF JHas(headers, "content-length")
                                THEN JGet(headers, "content-length")
                                ELSE JStr("unknown")>>)
            IN IF JTruthy(error_message)
               THEN JPut(base, "error", error_message) ELSE base
        calls == failed \o access \o
                 <<LoggerEmit(middleware_logger, "info", "Request completed",
                              JNone, JDict(<<"extra">>, <<response_audit_data>>))>>
    IN [logs |-> LogCalls(calls, fail),
        response |-> IF fail = 0 \/ fail > Len(calls)
                     THEN Response(status,
                                   JPut(JPut(headers, "X-Request-ID", request_id),
                                        "X-Audit-Logged", JStr("true")))
                     ELSE Raised("log sink failure")]

-----------------------------------------------------------------------------
(* MedicalBillingAgent, BaseAgent and AgentOrchestrator (app/agents/base.py) *)

\* MedicalBillingAgent.performance_metrics after __init__
NoMetrics ==
    [total_tasks |-> 0, successful_tasks |-> 0, failed_tasks |-> 0,
     average_execution_time |-> 0]

\* the metrics with the total counted and neither outcome
update_metrics_total_only(m, execution_time, success) ==
    [m EXCEPT !.total_tasks = @ + 1]

\* MedicalBillingAgent._update_metrics
update_metrics(m, execution_time, success) ==
    LET total == m.total_tasks + 1
    IN [total_tasks |-> total,
        successful_tasks |-> m.successful_tasks + (IF success THEN 1 ELSE 0),
        failed_tasks |-> m.failed_tasks + (IF success THEN 0 ELSE 1),
        average_execution_time |->
            ((m.average_execution_time * (total - 1)) + execution_time) \div total]

\* log_hipaa_event(event_type, details, user_id, patient_id): one audit event
log_hipaa_event(event_type, details, user_id, patient_id) ==
    <<Rec("hipaa", "info", event_type, JNone,
          JDict(<<"details", "user_id", "patient_id">>,
                <<details, user_id, patient_id>>))>>

\* context.get(k), None when the key is absent
ContextGet(context, k) == IF JHas(context, k) THEN JGet(context, k) ELSE JNone

\* MedicalBillingAgent._get_patient_id_safe: the patient id, or the
\* AttributeError of None.get when patient_info is present and None
get_patient_id_safe(context) ==
    IF ~JTruthy(context) THEN [raised |-> FALSE, val |-> JNone]
    ELSE IF JTruthy(ContextGet(context, "patient_id"))
    THEN [raised |-> FALSE, val |-> ContextGet(context, "patient_id")]
    ELSE IF JHas(context, "patient_info") /\ JGet(context, "patient_info").t # "dict"
    THEN [raised |-> TRUE, val |-> JNone]
    ELSE LET patient_info == IF JHas(context, "patient_info")
                             THEN JGet(context, "patient_info") ELSE EmptyDict
         IN [raised |-> FALSE,
             val |-> IF JTruthy(ContextGet(patient_info, "patient_id"))
                     THEN ContextGet(patient_info, "patient_id")
                     ELSE ContextGet(patient_info, "id")]

\* MedicalBillingAgent.execute_task: executes tells whether crew_task.execute()
\* returns (TRUE) or raises; gives the metrics, the status of the returned
\* mapping ("raised" when an exception leaves the call) and the events logged
execute_task(m, context, executes, now) ==
    LET pid == get_patient_id_safe(context)
        user_id == IF JTruthy(context) THEN ContextGet(context, "user_id") ELSE JNone
        execution_time == 0
        started == log_hipaa_event("task_started",
                                   JDict(<<"agent_id", "task_id", "role", "timestamp">>,
                                         <<JStr("agent-1"), JFmt("task_", now),
                                           JStr("medical_coding"), JFmt("iso", now)>>),
                                   user_id, pid.val)
    IN IF pid.raised
       THEN [metrics |-> m, status |-> "raised", logs |-> <<>>]
       ELSE IF executes
       THEN [metrics |-> update_metrics(m, execution_time, TRUE),
             status |-> "completed",
             logs |-> started \o
                      log_hipaa_event("task_completed",
                                      JDict(<<"agent_id", "task_id", "execution_time",
                                              "success">>,
                                            <<JStr("agent-1"), JFmt("task_", now),
                                              JNum(execution_time), JBool(TRUE)>>),
                                      user_id, pid.val)]
       ELSE [metrics |-> update_metrics(m, execution_time, FALSE),
             status |-> "failed",
             logs |-> started \o
                      log_hipaa_event("task_failed",
                                      JDict(<<"agent_id", "task_id", "error",
                                              "execution_time">>,
                                            <<JStr("agent-1"), JFmt("task_", now),
                                              JStr("executor error"),
                                              JNum(execution_time)>>),
                                      user_id, pid.val)]

\* the agents registered with the orchestrator: one bridged to the
\* MedicalBillingAgent, one without a crew agent
RegisteredAgents == {"bridged", "legacy"}

\* BaseAgent.process_task of a registered agent: AgentResult.success, with
\* the metrics of the MedicalBillingAgent behind it and the events logged
process_task(agent_id, m, context, executes, now) ==
    IF agent_id = "bridged"
    THEN LET r == execute_task(m, context, executes, now)
         IN [success |-> r.status = "completed", metrics |-> r.metrics,
             status |-> r.status, logs |-> r.logs]
    ELSE [success |-> TRUE, metrics |-> m, status |-> "", logs |-> <<>>]

\* an AgentTask that create_task has not made yet
NoTask == [created |-> FALSE, context |-> EmptyDict, status |-> "", success |-> FALSE]

\* AgentOrchestrator.__init__
NoOrchestrator ==
    [tasks |-> [t \in 1..MaxTasks |-> NoTask], task_queue |-> <<>>,
     completed_tasks |-> <<>>]

\* AgentOrchestrator.create_task: task t is the new AgentTask object
create_task(o, t, agent_id, context) ==
    LET ctx == IF JTruthy(context) THEN context ELSE EmptyDict
        task == [created |-> TRUE,
                 context |-> IF agent_id # "" THEN JPut(ctx, "assigned_agent", JStr(agent_id))
                             ELSE ctx,
                 status |-> "pending", success |-> FALSE]
    IN [o EXCEPT !.tasks[t] = task, !.task_queue = Append(@, t)]

\* list.remove(x): the first occurrence goes
RECURSIVE Remove(_, _)
Remove(q, x) ==
    IF q = <<>> THEN q
    ELSE IF Head(q) = x THEN Tail(q)
    ELSE <<Head(q)>> \o Remove(Tail(q), x)

\* x in list
InList(q, x) == \E i \in 1..Len(q) : q[i] = x

\* AgentOrchestrator.execute_task on task t
orchestrator_execute_task(o, m, t, executes, now) ==
    LET task == o.tasks[t]
        assigned_agent == ContextGet(task.context, "assigned_agent")
        found == JTruthy(assigned_agent) /\ assigned_agent.s \in RegisteredAgents
        result == IF found
                  THEN process_task(assigned_agent.s, m, task.context, executes, now)
                  ELSE [success |-> FALSE, metrics |-> m, status |-> "", logs |-> <<>>]
    IN [orch |-> [o EXCEPT !.tasks[t].success = result.success,
                           !.tasks[t].status = IF result.success THEN "completed"
                                               ELSE "failed",
                           !.task_queue = IF InList(@, t) THEN Remove(@, t) ELSE @,
                           !.completed_tasks = Append(@, t)],
        result |-> result]

\* AgentOrchestrator.get_status
get_status(o) ==
    [registered_agents |-> Cardinality(RegisteredAgents),
     pending_tasks |-> Len(o.task_queue),
     completed_tasks |-> Len(o.completed_tasks)]

-----------------------------------------------------------------------------
(* Inputs of the entity operations *)

SetValues == {NoneV, Str(""), Str("Jane"), IntV(7)}

Actors == {NoneV, Str("u1")}

\* the process keys the entity is exercised under: the configured default and a Fernet key
EntityKeys == {DefaultKey, KeyA}

\* the IVs drawn while the entity is exercised
EntityIVs == {0}

\* a ciphertext sealed under a key this process never holds
ForeignToken == Token("foreign-key", "Jane", 0)

\* mappings a caller may give to update_from_dict, as their items in order
UpdData ==
    {<<>>,
     <<<<"first_name", Str("Jane")>>>>,
     <<<<"first_name", NoneV>>>>,
     <<<<"social_security_number", Str("123-45-6789")>>>>,
     <<<<"first_name_encrypted", Str("Jane")>>>>,
     <<<<"social_security_number_encrypted", ForeignToken>>>>,
     <<<<"nickname", Str("JJ")>>>>,
     <<<<"nickname", Str("JJ")>>, <<"ssn", Str("123-45-6789")>>>>,
     <<<<"race", Str("Asian")>>, <<"nickname", Str("JJ")>>>>,
     <<<<"race", Str("Asian")>>, <<"first_name", Str("Jane")>>>>}

\* a mapping that names the identity columns of the record
IdentityData == {<<<<"id", IntV(7)>>, <<"uuid", Str("forged")>>>>}

\* keyword arguments of the constructor
CtorData ==
    {<<>>, <<<<"first_name", Str("Jane")>>>>,
     <<<<"first_name", Str("Jane")>>, <<"social_security_number", Str("123-45-6789")>>>>}

BlankEntity == [c \in Columns |-> NoneV]

NoWrites == [f \in PhiFields |-> NoneV]

NoMap == [c \in Columns |-> NoneV]

Op(name, f, v, phi, res, map) ==
    [op |-> name, f |-> f, v |-> v, phi |-> phi, res |-> res, map |-> map,
     ignored |-> <<>>]

\* history: the keys of data for which hasattr(self, key) is false
RECURSIVE Ignored(_)
Ignored(data) ==
    IF data = <<>> THEN <<>>
    ELSE IF data[1][1] \in KnownAttributes
         THEN Ignored(Tail(data))
         ELSE <<data[1][1]>> \o Ignored(Tail(data))

-----------------------------------------------------------------------------
(* Operations on the entity *)

EntityStart ==
    /\ clock = 0
    /\ built = FALSE
    /\ ent = BlankEntity
    /\ written = NoWrites
    /\ last = Op("none", "", NoneV, FALSE, Ret(NoneV), NoMap)

CodecIdle ==
    codec = [stage |-> "idle", plain |-> NoneV, ekey |-> "", dkey |-> "",
             enc |-> Ret(NoneV), dec |-> Ret(NoneV), altered |-> FALSE,
             out |-> <<>>]

LogIdle ==
    /\ logdata = JNone
    /\ sink = <<>>

HttpIdle ==
    /\ reqs = [i \in 1..MaxRequests |-> IdleRequest]
    /\ resp = NoResponse

AgentsIdle ==
    /\ agent = [performance_metrics |-> NoMetrics, returned |-> ""]
    /\ orch = NoOrchestrator

Init ==
    /\ key \in EntityKeys
    /\ EntityStart
    /\ CodecIdle
    /\ LogIdle
    /\ HttpIdle
    /\ AgentsIdle

\* time passes
Tick ==
    /\ clock < MaxClock
    /\ clock' = clock + 1
    /\ UNCHANGED <<notEntity, key, built, ent, written, last>>

\* BaseModel.__init__: the declarative constructor sets each keyword argument,
\* then a uuid is generated when none was given
Construct ==
    /\ ~built
    /\ \E data \in CtorData, iv \in EntityIVs :
          LET r == SetItems(BlankEntity, NoWrites, key, data, iv)
          IN IF r.res.kind = "raise"
             THEN /\ last' = Op("init", "", NoneV, FALSE, r.res, NoMap)
                  /\ UNCHANGED <<built, ent, written>>
             ELSE /\ built' = TRUE
                  /\ ent' = [r.e EXCEPT !["uuid"] =
                                IF Truthy(@) THEN @ ELSE Str("uuid4")]
                  /\ written' = r.w
                  /\ last' = Op("init", "", NoneV, FALSE, Ret(NoneV), NoMap)
    /\ UNCHANGED <<notEntity, key, clock>>

\* The storage layer inserts the row: the identity, unless the caller set one,
\* and the column defaults (each default=datetime.utcnow is its own call)
Insert ==
    /\ built
    /\ ent["created_at"] = NoneV
    /\ \E d \in {0, 1} :
          /\ clock + d <= MaxClock
          /\ clock' = clock + d
          /\ ent' = [ent EXCEPT
                 !["id"] = IF @ = NoneV THEN IntV(1) ELSE @,
                 !["created_at"] = IF @ = NoneV THEN DateTimeV(clock) ELSE @,
                 !["updated_at"] = IF @ = NoneV THEN DateTimeV(clock + d) ELSE @,
                 !["is_active"] = IF @ = NoneV THEN BoolV(TRUE) ELSE @]
    /\ last' = Op("insert", "", NoneV, FALSE, Ret(NoneV), NoMap)
    /\ UNCHANGED <<notEntity, key, built, written>>

\* entity.f = v
SetField ==
    /\ built
    /\ \E f \in PhiFields, v \in SetValues, iv \in EntityIVs :
          LET r == FieldSet(ent, key, f, v, iv)
          IN /\ ent' = r.e
             /\ written' = IF r.res.kind = "raise" THEN written
                           ELSE [written EXCEPT ![f] =
                                    IF v = NoneV THEN NoneV ELSE PyStr(v)]
             /\ last' = Op("set", f, v, FALSE, r.res, NoMap)
    /\ UNCHANGED <<notEntity, key, clock, built>>

\* entity.f
GetField ==
    /\ built
    /\ \E f \in PhiFields :
          last' = Op("get", f, NoneV, FALSE, FieldGet(ent, key, f), NoMap)
    /\ UNCHANGED <<notEntity, key, clock, built, ent, written>>

\* entity.update_from_dict(data, user_id)
UpdateFromDictCall(data, user_id, iv) ==
    /\ built
    /\ LET r == update_from_dict(ent, written, key, data, user_id, clock, iv)
       IN /\ ent' = r.e
          /\ written' = r.w
          /\ last' = [Op("update_from_dict", "", user_id, FALSE, r.res, NoMap)
                          EXCEPT !.ignored = Ignored(data)]
    /\ UNCHANGED <<notEntity, key, clock, built>>

UpdateFromDict ==
    \E data \in UpdData, user_id \in Actors, iv \in EntityIVs :
        UpdateFromDictCall(data, user_id, iv)

SoftDelete ==
    /\ built
    /\ \E user_id \in Actors :
          /\ ent' = soft_delete(ent, user_id, clock)
          /\ last' = Op("soft_delete", "", user_id, FALSE, Ret(NoneV), NoMap)
    /\ UNCHANGED <<notEntity, key, clock, built, written>>

ToDict ==
    /\ built
    /\ \E include_phi \in BOOLEAN :
          last' = Op("to_dict", "", NoneV, include_phi, Ret(NoneV),
                     to_dict(ent, key, include_phi))
    /\ UNCHANGED <<notEntity, key, clock, built, ent, written>>

\* entity.update_from_dict(data, user_id) with data that names identity columns
UpdateIdentity ==
    \E data \in IdentityData, user_id \in Actors, iv \in EntityIVs :
        UpdateFromDictCall(data, user_id, iv)

Next ==
    \/ Tick
    \/ Construct
    \/ Insert
    \/ SetField
    \/ GetField
    \/ UpdateFromDict
    \/ SoftDelete
    \/ ToDict

Spec == Init /\ [][Next]_vars

\* The operations that change a record, the identity columns among their inputs
NextRecord ==
    \/ Tick
    \/ Construct
    \/ Insert
    \/ SetField
    \/ UpdateFromDict
    \/ UpdateIdentity
    \/ SoftDelete

SpecRecord == Init /\ [][NextRecord]_vars

-----------------------------------------------------------------------------
(* The codec on its own: encrypt one input, then decrypt the result *)

CodecInputs == {NoneV, Str(""), Str("Jane"), Str("Smith"), Str("123-45-6789")}

\* a ciphertext changed in transit or storage authenticates under no key
Tampered(t) == [t EXCEPT !.key = "tampered"]

Malformed == Str("not-a-fernet-token")

InitCodec ==
    /\ key = KeyA
    /\ EntityStart
    /\ LogIdle
    /\ HttpIdle
    /\ AgentsIdle
    /\ \E p \in CodecInputs, k \in Keys :
          codec = [stage |-> "start", plain |-> p, ekey |-> k, dkey |-> "",
                   enc |-> Ret(NoneV), dec |-> Ret(NoneV), altered |-> FALSE,
                   out |-> <<>>]

\* BaseModel.encrypt_phi(plain) in a process whose key is ekey
CodecEncrypt ==
    /\ codec.stage = "start"
    /\ \E iv \in IVs :
          codec' = [codec EXCEPT
                       !.stage = "encrypted",
                       !.enc = encrypt_phi(codec.ekey, codec.plain, iv),
                       !.out = @ \o printed("Encryption error",
                                            encrypt_caught(codec.ekey, codec.plain))]
    /\ UNCHANGED notCodec

\* the stored ciphertext is tampered with, or replaced by a malformed one
CodecAlter ==
    /\ codec.stage = "encrypted"
    /\ codec.enc.kind = "return"
    /\ codec.enc.val.tag = "token"
    /\ ~codec.altered
    /\ \E c \in {Tampered(codec.enc.val), Malformed} :
          codec' = [codec EXCEPT !.enc = Ret(c), !.altered = TRUE]
    /\ UNCHANGED notCodec

\* BaseModel.decrypt_phi(ciphertext) in a process whose key is k2
CodecDecrypt ==
    /\ codec.stage = "encrypted"
    /\ codec.enc.kind = "return"
    /\ \E k2 \in Keys :
          codec' = [codec EXCEPT
                       !.stage = "decrypted", !.dkey = k2,
                       !.dec = decrypt_phi(k2, codec.enc.val),
                       !.out = @ \o printed("Decryption error",
                                            decrypt_caught(k2, codec.enc.val))]
    /\ UNCHANGED notCodec

NextCodec ==
    \/ CodecEncrypt
    \/ CodecAlter
    \/ CodecDecrypt

SpecCodec == InitCodec /\ [][NextCodec]_vars

-----------------------------------------------------------------------------
(* Reads of a stored Patient: the three name attributes and full_name *)

NameFields == <<"first_name", "middle_name", "last_name">>

NameSlots == {EncName(NameFields[i]) : i \in 1..Len(NameFields)}

\* the plaintext the stored record holds for each name attribute
NamePlain(f) ==
    CASE f = "first_name"  -> "Jane"
      [] f = "middle_name" -> "Q"
      [] OTHER             -> "Doe"

\* " ".join(parts)
RECURSIVE Join(_)
Join(parts) ==
    IF parts = <<>> THEN ""
    ELSE IF Len(parts) = 1 THEN parts[1]
    ELSE parts[1] \o " " \o Join(Tail(parts))

\* [self.first_name, self.middle_name, self.last_name]: the first read that
\* raises ends the evaluation
RECURSIVE ReadParts(_, _, _)
ReadParts(e, k, fields) ==
    IF fields = <<>> THEN [res |-> Ret(NoneV), parts |-> <<>>]
    ELSE LET r == FieldGet(e, k, fields[1])
         IN IF r.kind = "raise" THEN [res |-> r, parts |-> <<>>]
            ELSE LET rest == ReadParts(e, k, Tail(fields))
                 IN IF rest.res.kind = "raise" THEN rest
                    ELSE [res |-> Ret(NoneV),
                          parts |-> (IF Truthy(r.val) THEN <<r.val.s>> ELSE <<>>)
                                    \o rest.parts]

\* Patient.full_name
full_name(e, k) ==
    LET r == ReadParts(e, k, NameFields)
    IN IF r.res.kind = "raise" THEN r.res ELSE Ret(Str(Join(r.parts)))

\* a record loaded from storage: each name is absent or stored under the process key
InitNames ==
    /\ key = KeyA
    /\ clock = 0
    /\ built = TRUE
    /\ \E present \in SUBSET {NameFields[i] : i \in 1..Len(NameFields)} :
          ent = [c \in NameSlots |->
                    LET f == CHOOSE g \in {NameFields[i] : i \in 1..Len(NameFields)} :
                                 EncName(g) = c
                    IN IF f \in present THEN Token(KeyA, NamePlain(f), 0) ELSE NoneV]
    /\ written = NoWrites
    /\ last = Op("none", "", NoneV, FALSE, Ret(NoneV), NoMap)
    /\ CodecIdle
    /\ LogIdle
    /\ HttpIdle
    /\ AgentsIdle

\* the ciphertext of one slot is corrupted in storage
CorruptSlot ==
    /\ \E c \in NameSlots :
          /\ ent[c].tag = "token"
          /\ ent[c].key = key
          /\ ent' = [ent EXCEPT ![c] = Tampered(@)]
    /\ last' = Op("corrupt", "", NoneV, FALSE, Ret(NoneV), NoMap)
    /\ UNCHANGED <<notEntity, key, clock, built, written>>

\* patient.f
ReadName(f) ==
    /\ last' = Op("get", f, NoneV, FALSE, FieldGet(ent, key, f), NoMap)
    /\ UNCHANGED <<notEntity, key, clock, built, ent, written>>

ReadField == \E i \in 1..Len(NameFields) : ReadName(NameFields[i])

\* patient.full_name
ReadFullName ==
    /\ last' = Op("full_name", "", NoneV, FALSE, full_name(ent, key), NoMap)
    /\ UNCHANGED <<notEntity, key, clock, built, ent, written>>

NextNames ==
    \/ CorruptSlot
    \/ ReadField
    \/ ReadFullName

SpecNames == InitNames /\ [][NextNames]_vars

-----------------------------------------------------------------------------
(* soft_delete on each entity class built on BaseModel *)

EntityClasses ==
    {"Patient", "PatientInsurance", "Claim", "ClaimLine", "ClaimStatusHistory",
     "ClaimDenial"}

\* a datetime.date, as a day number
DateV(d) == [tag |-> "date", s |-> "", key |-> "", n |-> d]

\* the columns of an entity that soft_delete and is_active touch, and its class
LifecycleColumns ==
    {"__class__", "is_active", "updated_at", "updated_by", "effective_date",
     "termination_date"}

\* PatientInsurance.is_active: the hybrid property, which has no setter
insurance_is_active(e, today) ==
    IF Truthy(e["effective_date"]) /\ e["effective_date"].n > today
    THEN BoolV(FALSE)
    ELSE IF Truthy(e["termination_date"]) /\ e["termination_date"].n < today
    THEN BoolV(FALSE)
    ELSE BoolV(TRUE)

\* entity.is_active
read_is_active(e, today) ==
    IF e["__class__"] = Str("PatientInsurance")
    THEN insurance_is_active(e, today)
    ELSE e["is_active"]

\* entity.is_active = v: a hybrid property without a setter refuses the assignment
set_is_active(e, v) ==
    IF e["__class__"] = Str("PatientInsurance")
    THEN [e |-> e, res |-> Raise("AttributeError", "can't set attribute")]
    ELSE [e |-> [e EXCEPT !["is_active"] = v], res |-> Ret(NoneV)]

\* BaseModel.soft_delete on an entity of any class: the first statement may raise
soft_delete_on(e, user_id, now) ==
    LET r == set_is_active(e, BoolV(FALSE))
    IN IF r.res.kind = "raise" THEN r
       ELSE [e |-> soft_delete(e, user_id, now), res |-> Ret(NoneV)]

\* the dates of a policy: none, a day in the past, a day to come
PolicyDates == {NoneV, DateV(0), DateV(MaxClock + 1)}

\* a stored entity of one of the classes
InitClasses ==
    /\ key = KeyA
    /\ clock = 0
    /\ built = TRUE
    /\ \E cls \in EntityClasses, eff \in PolicyDates, term \in PolicyDates :
          /\ cls # "PatientInsurance" => (eff = NoneV /\ term = NoneV)
          /\ ent = [c \in LifecycleColumns |->
                       CASE c = "__class__"        -> Str(cls)
                         [] c = "is_active"        -> BoolV(TRUE)
                         [] c = "updated_at"       -> DateTimeV(0)
                         [] c = "effective_date"   -> eff
                         [] c = "termination_date" -> term
                         [] OTHER                  -> NoneV]
    /\ written = NoWrites
    /\ last = Op("none", "", NoneV, FALSE, Ret(NoneV), NoMap)
    /\ CodecIdle
    /\ LogIdle
    /\ HttpIdle
    /\ AgentsIdle

\* entity.soft_delete(user_id)
SoftDeleteAny ==
    /\ \E user_id \in Actors :
          LET r == soft_delete_on(ent, user_id, clock)
          IN /\ ent' = r.e
             /\ last' = Op("soft_delete", "", user_id, FALSE, r.res, NoMap)
    /\ UNCHANGED <<notEntity, key, clock, built, written>>

\* entity.is_active
ReadIsActive ==
    /\ last' = Op("is_active", "", NoneV, FALSE, Ret(read_is_active(ent, clock)), NoMap)
    /\ UNCHANGED <<notEntity, key, clock, built, ent, written>>

NextClasses ==
    \/ Tick
    \/ SoftDeleteAny
    \/ ReadIsActive

SpecClasses == InitClasses /\ [][NextClasses]_vars

-----------------------------------------------------------------------------
(* The logging pipeline on its own: a caller builds a structured value and
   hands it to the sanitizer or to an operation that emits an audit event *)

WrapKeys == {"ssn", "Email", "batch"}

InitLog ==
    /\ key = KeyA
    /\ EntityStart
    /\ CodecIdle
    /\ HttpIdle
    /\ AgentsIdle
    /\ logdata = JStr("123-45-6789")
    /\ sink = <<>>

notLog == <<key, clock, built, ent, written, last, codec, reqs, resp, agent, orch>>

\* {k: value} or {k: value, "note": free text}
WrapDict ==
    /\ JDepth(logdata) < MaxDepth
    /\ \E k \in WrapKeys, note \in BOOLEAN :
          logdata' = IF note /\ k = "batch"
                     THEN JDict(<<k, "note">>, <<logdata, JStr("see ssn above")>>)
                     ELSE JDict(<<k>>, <<logdata>>)
    /\ sink' = <<>>
    /\ UNCHANGED notLog

\* [value]
WrapList ==
    /\ JDepth(logdata) < MaxDepth
    /\ logdata.t \in {"dict", "list"}
    /\ logdata' = JList(<<logdata>>)
    /\ sink' = <<>>
    /\ UNCHANGED notLog

Sanitize ==
    /\ logdata.t = "dict"
    /\ sink' = <<Rec("sanitize_log_data", "", "", JNone, sanitize_log_data(logdata))>>
    /\ UNCHANGED <<logdata, notLog>>

\* the details a caller passes: the value built, or none
DetailsArgs == {d \in {logdata} : d.t = "dict"} \cup {JNone}

Audit ==
    /\ \E details \in {d \in {logdata} : d.t = "dict"} :
          sink' = audit("billing", "phi_access", details, JStr("u1"), ClientIp,
                        JStr("agent"), clock)
    /\ UNCHANGED <<logdata, notLog>>

LogAuthenticationEvent ==
    /\ \E details \in DetailsArgs, success \in BOOLEAN :
          sink' = log_authentication_event("login", JStr("u1"), ClientIp,
                                           JStr("agent"), success, details, clock)
    /\ UNCHANGED <<logdata, notLog>>

LogAccessEvent ==
    /\ \E details \in DetailsArgs, success \in BOOLEAN :
          sink' = log_access_event(JPath(<<"api", "v1", "patients">>), "get",
                                   JStr("u1"), ClientIp, success, details, clock)
    /\ UNCHANGED <<logdata, notLog>>

LogAccess ==
    /\ \E details \in DetailsArgs :
          sink' = log_access(ent, JStr("u1"), "read", details, JNone, JNone)
    /\ UNCHANGED <<logdata, notLog>>

NextLog ==
    \/ WrapDict
    \/ WrapList
    \/ Sanitize
    \/ Audit
    \/ LogAuthenticationEvent
    \/ LogAccessEvent
    \/ LogAccess

SpecLog == InitLog /\ [][NextLog]_vars

-----------------------------------------------------------------------------
(* Log data keyed by the PHI attributes of the entities *)

\* Patient._phi_fields
patient_phi_fields ==
    {"first_name", "last_name", "middle_name", "social_security_number",
     "date_of_birth", "phone", "email", "emergency_contact", "emergency_phone",
     "address_line_1", "address_line_2", "city", "state", "zip_code", "country"}

\* the EncryptedField attributes of PatientInsurance
insurance_encrypted_fields ==
    {"policy_number", "group_number", "subscriber_id", "policy_holder_name",
     "policy_holder_dob", "policy_holder_ssn"}

\* the values of attributes that callers log
LoggedValues == {JStr("123-45-6789"), JStr("Jane"), JNum(7)}

InitFields ==
    /\ key = KeyA
    /\ EntityStart
    /\ CodecIdle
    /\ HttpIdle
    /\ AgentsIdle
    /\ logdata \in LoggedValues
    /\ sink = <<>>

\* {attribute: value}, as a caller logging a field of an entity builds it
NameField ==
    /\ logdata.t # "dict"
    /\ \E n \in patient_phi_fields \cup insurance_encrypted_fields :
          logdata' = JDict(<<n>>, <<logdata>>)
    /\ sink' = <<>>
    /\ UNCHANGED notLog

\* {"record": {attribute: value}}
NestRecord ==
    /\ logdata.t = "dict"
    /\ JDepth(logdata) < 2
    /\ logdata' = JDict(<<"record">>, <<logdata>>)
    /\ sink' = <<>>
    /\ UNCHANGED notLog

NextFields ==
    \/ NameField
    \/ NestRecord
    \/ Sanitize

SpecFields == InitFields /\ [][NextFields]_vars

-----------------------------------------------------------------------------
(* Security events whose details carry keys of the caller's choice *)

DetailKeys == {"request_id", "success", "resource", "timestamp"}

DetailValues == {JBool(TRUE), JStr("other")}

\* the details mappings the model builds have at most this many keys
MaxDetails == 2

InitEvents ==
    /\ key = KeyA
    /\ EntityStart
    /\ CodecIdle
    /\ HttpIdle
    /\ AgentsIdle
    /\ logdata = EmptyDict
    /\ sink = <<>>

\* details[k] = v
AddDetail ==
    /\ Len(logdata.keys) < MaxDetails
    /\ \E k \in DetailKeys, v \in DetailValues :
          /\ ~JHas(logdata, k)
          /\ logdata' = JPut(logdata, k, v)
    /\ sink' = <<>>
    /\ UNCHANGED notLog

NextEvents ==
    \/ AddDetail
    \/ LogAuthenticationEvent
    \/ LogAccessEvent

SpecEvents == InitEvents /\ [][NextEvents]_vars

-----------------------------------------------------------------------------
(* Tasks through the agent and the orchestrator *)

\* the context a caller passes: none, the acting user, a patient_info of None
Contexts ==
    {JNone, JDict(<<"user_id">>, <<JStr("u1")>>),
     JDict(<<"patient_info">>, <<JNone>>)}

\* the agent a task is assigned to: none, a registered one, an unknown one
AgentIds == {""} \cup RegisteredAgents \cup {"ghost"}

InitAgents ==
    /\ key = KeyA
    /\ EntityStart
    /\ CodecIdle
    /\ LogIdle
    /\ HttpIdle
    /\ AgentsIdle

notAgents == <<key, clock, built, ent, written, last, codec, logdata, reqs, resp>>

\* await agent.execute_task(description, context)
AgentExecuteTask ==
    /\ agent.performance_metrics.total_tasks < MaxTasks
    /\ \E context \in Contexts, executes \in BOOLEAN :
          LET r == execute_task(agent.performance_metrics, context, executes, clock)
          IN /\ agent' = [performance_metrics |-> r.metrics, returned |-> r.status]
             /\ sink' = r.logs
    /\ UNCHANGED <<orch, notAgents>>

\* orchestrator.create_task(description, agent_id)
CreateTask ==
    /\ \E t \in 1..MaxTasks, agent_id \in AgentIds :
          /\ ~orch.tasks[t].created
          /\ \A u \in 1..(t - 1) : orch.tasks[u].created
          /\ orch' = create_task(orch, t, agent_id, JNone)
    /\ sink' = <<>>
    /\ UNCHANGED <<agent, notAgents>>

\* await orchestrator.execute_task(task), on a task create_task returned
OrchestratorExecuteTask ==
    /\ Len(orch.completed_tasks) < MaxTasks
    /\ agent.performance_metrics.total_tasks < MaxTasks
    /\ \E t \in 1..MaxTasks, executes \in BOOLEAN :
          /\ orch.tasks[t].created
          /\ LET r == orchestrator_execute_task(orch, agent.performance_metrics, t,
                                                executes, clock)
             IN /\ orch' = r.orch
                /\ agent' = IF r.result.status = "" THEN agent
                            ELSE [performance_metrics |-> r.result.metrics,
                                  returned |-> r.result.status]
                /\ sink' = r.result.logs
    /\ UNCHANGED notAgents

NextAgents ==
    \/ AgentExecuteTask
    \/ CreateTask
    \/ OrchestratorExecuteTask

SpecAgents == InitAgents /\ [][NextAgents]_vars

-----------------------------------------------------------------------------
(* Requests through AuditMiddleware.dispatch *)

Paths == {<<"api", "v1", "patients", "7">>, <<"health">>}

Queries == {EmptyDict, JDict(<<"ssn">>, <<JStr("123-45-6789")>>)}

\* the ciphertext a handler reads from storage
StoredCiphertext == Token(KeyA, "Jane", 0)

\* a handler that reads a PHI field of a stored record in a process whose key
\* is k: a 200 response, or the exception of the read
HandlerRead(k) ==
    LET r == decrypt_phi(k, StoredCiphertext)
    IN IF r.kind = "raise"
       THEN Outcome(TRUE, 0, r.msg, EmptyDict)
       ELSE Outcome(FALSE, 200, "", EmptyDict)

\* what the handler does: the read succeeds, or fails under another key
Outcomes == {HandlerRead(KeyA), HandlerRead(KeyB)}

\* the Content-Length header of a request: absent, a size, a size over the
\* limit, not a number
ContentLengths == {JNone, JStr("12"), JStr("99999999"), JStr("abc")}

\* the logger call of dispatch whose sink raises: none, the first, the second
SinkFailures == {0, 1, 2}

InitHttp ==
    /\ key = KeyA
    /\ EntityStart
    /\ CodecIdle
    /\ LogIdle
    /\ HttpIdle
    /\ AgentsIdle

notHttp == <<key, built, ent, written, last, codec, logdata, agent, orch>>

\* a request enters dispatch, which runs up to `await call_next(request)`
DispatchStartCall(i, path, query, bearer) ==
    /\ reqs[i].pc = "idle"
    /\ reqs' = [reqs EXCEPT ![i] = [pc |-> "called", path |-> path,
                                    query |-> query, bearer |-> bearer,
                                    start |-> clock]]
    /\ sink' = dispatch_started(path, query, bearer, clock)
    /\ UNCHANGED <<clock, resp, notHttp>>

DispatchStart ==
    \E i \in 1..MaxRequests, path \in Paths, query \in Queries, bearer \in BOOLEAN :
        DispatchStartCall(i, path, query, bearer)

\* call_next returns to dispatch: SecurityMiddleware and the handler have run
\* (the Content-Length of the request is read by SecurityMiddleware only)
DispatchFinishCall(i, content_length, out, fail) ==
    /\ reqs[i].pc = "called"
    /\ LET sec == security_dispatch(content_length, out)
           d == dispatch_finished(reqs[i], sec.out, clock, fail)
       IN /\ sink' = sec.logs \o d.logs
          /\ resp' = d.response
    /\ reqs' = [reqs EXCEPT ![i] = IdleRequest]
    /\ UNCHANGED <<clock, notHttp>>

DispatchFinish ==
    \E i \in 1..MaxRequests, content_length \in ContentLengths, out \in Outcomes,
       fail \in SinkFailures :
        DispatchFinishCall(i, content_length, out, fail)

NextHttp ==
    \/ Tick
    \/ DispatchStart
    \/ DispatchFinish

SpecHttp == InitHttp /\ [][NextHttp]_vars

\* the requests of one instant: no query string, any interleaving of arrivals
\* and completions
AuditStart ==
    \E i \in 1..MaxRequests, path \in Paths, bearer \in BOOLEAN :
        DispatchStartCall(i, path, EmptyDict, bearer)

NextAudit ==
    \/ AuditStart
    \/ DispatchFinish

SpecAudit == InitHttp /\ [][NextAudit]_vars

-----------------------------------------------------------------------------
(* Claims about the external view of an entity *)

\* C1: to_dict(include_phi=False) maps every name of _phi_fields to "[REDACTED]",
\* whether or not the underlying value is set.
C1_RedactedViewMasksPhi ==
    (last.op = "to_dict" /\ ~last.phi) =>
        \A f \in PhiFields : f \in DOMAIN last.map /\ last.map[f] = Redacted

\* C2: to_dict(include_phi=True) maps every PHI attribute that was set to a
\* non-empty plaintext v to that plaintext.
C2_FullViewShowsPhi ==
    (last.op = "to_dict" /\ last.phi) =>
        \A f \in PhiFields :
            (written[f].tag = "str" /\ written[f].s # "") =>
                (f \in DOMAIN last.map /\ last.map[f] = written[f])

\* every slot was last written through the descriptor
DescriptorOnly == \A f \in PhiFields : written[f] # RawMark

\* the plaintexts of the entity's PHI attributes: those stored through the
\* descriptor and those a read of the attribute returns
PhiPlaintexts ==
    {written[f] : f \in {g \in PhiFields : Truthy(written[g])}}
    \cup {FieldGet(ent, key, f).val :
             f \in {g \in PhiFields : FieldGet(ent, key, g).kind = "return"
                                      /\ Truthy(FieldGet(ent, key, g).val)}}

\* C3: when the PHI attributes of an entity were written through the descriptor,
\* no value of the mapping to_dict(include_phi=False) returns is the plaintext of
\* one of its PHI attributes.  (The values callers store in the plain columns
\* are distinct from the PHI plaintexts.)
C3_RedactedViewHoldsNoPlaintext ==
    (last.op = "to_dict" /\ ~last.phi /\ DescriptorOnly) =>
        \A c \in DOMAIN last.map : last.map[c] \notin PhiPlaintexts

C3_Witness ==
    /\ last.op = "to_dict"
    /\ ~last.phi
    /\ DescriptorOnly
    /\ \A f \in PhiFields : written[f].tag = "str" /\ written[f].s # ""
    /\ \A f \in PhiFields : FieldGet(ent, key, f) = Ret(written[f])
    /\ ent["race"] # NoneV

-----------------------------------------------------------------------------
(* Claims about the encrypted-field descriptor *)

\* C4: after set(entity, v) with v not null (the empty string included) a read
\* returns str(v); a read returns null only when the hidden slot is null, and
\* otherwise returns the decryption of the slot.
C4_SetThenGetReturnsPlaintext ==
    /\ (last.op = "set" /\ last.v # NoneV /\ last.res.kind = "return") =>
           FieldGet(ent, key, last.f) = Ret(PyStr(last.v))
    /\ \A f \in PhiFields :
           IF ent[EncName(f)] = NoneV
           THEN FieldGet(ent, key, f) = Ret(NoneV)
           ELSE /\ FieldGet(ent, key, f) # Ret(NoneV)
                /\ FieldGet(ent, key, f) = decrypt_phi(key, ent[EncName(f)])

\* what encrypt_phi can return under the process key
IsCodecOutput(v) ==
    \/ v = Str("")
    \/ v.tag = "token" /\ v.key = key

\* C5: every hidden slot is null or a ciphertext encrypt_phi produced under the
\* process key, whatever construction, descriptor sets, update_from_dict and
\* soft_delete were applied, and to_dict returns no slot's content.
C5_SlotConfinedToDescriptor ==
    /\ \A c \in SlotColumns : ent[c] = NoneV \/ IsCodecOutput(ent[c])
    /\ last.op = "to_dict" =>
          \A c \in DOMAIN last.map :
              c \in SlotColumns => last.map[c] = NoneV

-----------------------------------------------------------------------------
(* Claims about the codec *)

ForeignOrAltered ==
    /\ codec.stage = "decrypted"
    /\ Truthy(codec.plain)
    /\ codec.dkey # codec.ekey \/ codec.altered

\* C7: decrypting under key2 a ciphertext encrypt produced under key1 # key2, or
\* a malformed or tampered ciphertext, raises CryptoError and returns no
\* plaintext.
C7_WrongKeyRaisesCryptoError ==
    ForeignOrAltered =>
        (codec.dec.kind = "raise" /\ codec.dec.exc = "CryptoError")

-----------------------------------------------------------------------------
(* Claims about the logging pipeline *)

\* some key of the deny-list, at some depth of v, has a value that is not the marker
RECURSIVE Unredacted(_)
Unredacted(v) ==
    IF v.t = "dict"
    THEN \E i \in 1..Len(v.keys) :
            \/ Lower(v.keys[i]) \in phi_fields /\ v.items[i] # JRedacted
            \/ Unredacted(v.items[i])
    ELSE IF v.t \in {"list", "jsonstr"}
    THEN \E j \in 1..Len(v.items) : Unredacted(v.items[j])
    ELSE FALSE

\* C8: in the output of sanitize_log_data no key of the deny-list keeps its
\* value, at any depth reachable through mappings and sequences, sequences
\* nested in sequences included.
C8_SanitizeRedactsEveryDepth ==
    \A i \in 1..Len(sink) :
        sink[i].chan = "sanitize_log_data" => ~Unredacted(sink[i].fields)

AuditChannels == {"audit", "billing", "security", "AuditLog"}

\* C9: no audit event that HIPAACompliantLogger.audit, log_authentication_event,
\* log_access_event or AuditMixin.log_access stores or forwards carries an
\* unredacted deny-listed key of the caller's details.
C9_AuditEventsSanitized ==
    \A i \in 1..Len(sink) :
        sink[i].chan \in AuditChannels => ~Unredacted(sink[i].fields)

\* C10: no record AuditMiddleware logs through its get_logger logger
\* ("Request started", "Request completed") holds an unredacted value under a
\* deny-listed key.
C10_MiddlewareRecordsSanitized ==
    \A i \in 1..Len(sink) :
        sink[i].chan = "middleware.audit" => ~Unredacted(sink[i].fields)

-----------------------------------------------------------------------------
(* Claims about the lifecycle of a record *)

\* C11: after soft_delete(actor), for every entity state and every actor (null
\* included), is_active is False, updated_by equals actor, updated_at is the
\* instant of the call, created_at is unchanged and the record is still there
\* with the same id and uuid.
C11_SoftDeleteMarksInactive ==
    [][SoftDelete =>
          /\ built'
          /\ ent'["is_active"] = BoolV(FALSE)
          /\ ent'["updated_by"] = last'.v
          /\ ent'["updated_at"] = DateTimeV(clock)
          /\ ent'["created_at"] = ent["created_at"]
          /\ ent'["id"] = ent["id"]
          /\ ent'["uuid"] = ent["uuid"]]_vars

\* the key of data was set: a PHI attribute through the descriptor (the slot
\* holds a ciphertext and a read returns the new plaintext), a column directly
WasSet(e, name, v) ==
    IF name \in PhiFields
    THEN IF v = NoneV
         THEN e[EncName(name)] = NoneV /\ FieldGet(e, key, name) = Ret(NoneV)
         ELSE e[EncName(name)].tag = "token" /\ FieldGet(e, key, name) = Ret(PyStr(v))
    ELSE e[name] = v

\* C12: every call update_from_dict(data, actor) sets each key of data that
\* names a known attribute (a PHI attribute through the descriptor), refreshes
\* updated_at always - with empty data and when setting a key fails too - and
\* sets updated_by to the actor when one is given.
C12_UpdateSetsKnownKeysAndRefreshes ==
    [][\A data \in UpdData, user_id \in Actors, iv \in EntityIVs :
          (last'.op = "update_from_dict" /\ UpdateFromDictCall(data, user_id, iv)) =>
             /\ \A i \in 1..Len(data) :
                   data[i][1] \in KnownAttributes => WasSet(ent', data[i][1], data[i][2])
             /\ ent'["updated_at"] = DateTimeV(clock)
             /\ Truthy(user_id) => ent'["updated_by"] = user_id]_vars

\* the row of the record exists in storage
Created == built /\ ent["created_at"] # NoneV

\* C13: whatever update_from_dict (with any data), descriptor set and
\* soft_delete do to a created record, its id, uuid and created_at keep the
\* values assigned at creation.
C13_IdentityImmutable ==
    [][Created =>
          /\ ent'["id"] = ent["id"]
          /\ ent'["uuid"] = ent["uuid"]
          /\ ent'["created_at"] = ent["created_at"]]_vars

\* C16: immediately after a record is created (constructed, then inserted, with
\* nothing done to it in between) it has a freshly generated uuid, is_active is
\* true and created_at equals updated_at.
C16_CreationInvariants ==
    [][(Insert /\ last.op = "init") =>
          /\ ent'["uuid"] = Str("uuid4")
          /\ ent'["is_active"] = BoolV(TRUE)
          /\ ent'["created_at"] = ent'["updated_at"]]_vars

\* the mappings none of whose keys names an attribute of the entity
UndeclaredData ==
    {d \in UpdData : \A i \in 1..Len(d) : d[i][1] \notin KnownAttributes}

\* C17: in every state of a record, update_from_dict with data whose keys all
\* name no declared attribute raises nothing and changes nothing on the entity
\* but updated_at, and updated_by when an actor is given.
C17_UnknownKeysAreNoOp ==
    built =>
        \A data \in UndeclaredData, user_id \in Actors, iv \in EntityIVs :
            update_from_dict(ent, written, key, data, user_id, clock, iv) =
                [e |-> [ent EXCEPT
                          !["updated_at"] = DateTimeV(clock),
                          !["updated_by"] = IF Truthy(user_id) THEN user_id ELSE @],
                 w |-> written,
                 res |-> Ret(NoneV)]

C17_Witness ==
    /\ last.op = "update_from_dict"
    /\ last.ignored = <<"nickname", "ssn">>
    /\ last.res = Ret(NoneV)
    /\ last.v = Str("u1")
    /\ ent["updated_by"] = Str("u1")
    /\ ent["updated_at"] = DateTimeV(clock)
    /\ ent["created_at"] # NoneV
    /\ ent["created_at"] # ent["updated_at"]
    /\ ent["first_name_encrypted"].tag = "token"

\* C19: setting an encrypted attribute to null clears its hidden slot and raises
\* nothing, a following read returns null, and a second set to null leaves the
\* slot null again, raising nothing.
C19_NullSetIdempotent ==
    (last.op = "set" /\ last.v = NoneV) =>
        /\ last.res = Ret(NoneV)
        /\ ent[EncName(last.f)] = NoneV
        /\ FieldGet(ent, key, last.f) = Ret(NoneV)
        /\ \A iv \in EntityIVs :
              FieldSet(ent, key, last.f, NoneV, iv) = [e |-> ent, res |-> Ret(NoneV)]

\* the slot of the other attribute still holds its ciphertext
C19_Witness ==
    /\ last.op = "set"
    /\ last.v = NoneV
    /\ last.f = "first_name"
    /\ ent["first_name_encrypted"] = NoneV
    /\ written["first_name"] = NoneV
    /\ ent["social_security_number_encrypted"].tag = "token"
    /\ ent["updated_at"] # NoneV

-----------------------------------------------------------------------------
(* Claims about failures while a request is handled *)

\* the text of a ciphertext, as it would appear in a record
TokenText(t) == "gAAAAA/" \o t.key \o "/" \o t.s

\* the texts no record may hold: the keys and the stored ciphertext
SecretTexts == Keys \cup {TokenText(StoredCiphertext)}

\* some string of the structured value v is one of the secret texts
RECURSIVE HoldsSecret(_)
HoldsSecret(v) ==
    \/ v.t = "str" /\ v.s \in SecretTexts
    \/ \E j \in 1..Len(v.items) : HoldsSecret(v.items[j])

\* an access event of SecurityLogger that reports a failure
IsFailedAccessEvent(rec) ==
    /\ rec.chan = "security"
    /\ rec.event = "Access"
    /\ JHas(rec.fields, "success")
    /\ JGet(rec.fields, "success") = JBool(FALSE)

\* C14: when the read of a field fails to decrypt while a request for a
\* sensitive path is handled, an audit event with success=False is emitted for
\* the access, and no record emitted holds the ciphertext or the key.
C14_FailedDecryptIsAudited ==
    [][\A i \in 1..MaxRequests, content_length \in {JNone, JStr("12")} :
          (/\ DispatchFinishCall(i, content_length, HandlerRead(KeyB), 0)
           /\ is_sensitive_path(reqs[i].path)) =>
              /\ \E j \in 1..Len(sink') : IsFailedAccessEvent(sink'[j])
              /\ \A j \in 1..Len(sink') :
                    ~HoldsSecret(sink'[j].arg) /\ ~HoldsSecret(sink'[j].fields)]_vars

\* C15: when a logger call of AuditMiddleware.dispatch raises after the handler
\* has produced a response, dispatch still returns that response.
C15_SinkFailureKeepsResponse ==
    [][\A i \in 1..MaxRequests, content_length \in {JNone, JStr("12")},
          fail \in SinkFailures :
          DispatchFinishCall(i, content_length, HandlerRead(KeyA), fail) =>
              /\ resp'.exc = ""
              /\ resp'.status = HandlerRead(KeyA).status]_vars

-----------------------------------------------------------------------------
(* Claims about what the sanitizer and the audit emitters let through *)

\* b is a with nothing changed but the values under deny-listed keys: the same
\* keys in the same order at every level, every other value the same
RECURSIVE Preserved(_, _)
Preserved(a, b) ==
    IF a.t = "dict"
    THEN /\ b.t = "dict"
         /\ b.keys = a.keys
         /\ Len(b.items) = Len(a.items)
         /\ \A i \in 1..Len(a.items) :
               \/ Lower(a.keys[i]) \in phi_fields
               \/ Preserved(a.items[i], b.items[i])
    ELSE IF a.t = "list"
    THEN /\ b.t = "list"
         /\ Len(b.items) = Len(a.items)
         /\ \A j \in 1..Len(a.items) : Preserved(a.items[j], b.items[j])
    ELSE b = a

\* C18: sanitize_log_data goes by field name only: every key not on the
\* deny-list is in the output with its value unchanged (free text verbatim,
\* nested mappings kept in structure), and the output has the key set of the
\* input at every level.
C18_SanitizePassesOtherKeys ==
    \A i \in 1..Len(sink) :
        sink[i].chan = "sanitize_log_data" => Preserved(logdata, sink[i].fields)

C18_Witness ==
    /\ Len(sink) = 1
    /\ sink[1].chan = "sanitize_log_data"
    /\ logdata.keys = <<"batch", "note">>
    /\ logdata.items[1].t = "dict"
    /\ logdata.items[1].keys = <<"ssn">>
    /\ sink[1].fields.keys = <<"batch", "note">>
    /\ sink[1].fields.items[1] = JDict(<<"ssn">>, <<JRedacted>>)
    /\ sink[1].fields.items[2] = JStr("see ssn above")

\* the fields of the persisted audit record of the contract
ContractFields ==
    {"event_type", "actor_id", "resource_type", "resource_id", "timestamp",
     "success", "details", "client_ip", "client_agent"}

\* the names under which the source may carry a field of the contract
SourceNames(f) ==
    CASE f = "event_type"    -> {"event_type", "action"}
      [] f = "actor_id"      -> {"actor_id", "user_id"}
      [] f = "resource_type" -> {"resource_type", "table_name", "resource"}
      [] f = "resource_id"   -> {"resource_id", "record_id", "resource"}
      [] f = "client_ip"     -> {"client_ip", "ip_address"}
      [] f = "client_agent"  -> {"client_agent", "user_agent"}
      [] OTHER               -> {f}

\* the record has every field of the contract, under the contract's name or
\* the source's, with success a bool, details a mapping and timestamp an
\* ISO-8601 string
HasContractShape(fields) ==
    /\ \A f \in ContractFields : \E n \in SourceNames(f) : JHas(fields, n)
    /\ JHas(fields, "success") => JGet(fields, "success").t = "bool"
    /\ JHas(fields, "details") => JGet(fields, "details").t = "dict"
    /\ JHas(fields, "timestamp") =>
          (JGet(fields, "timestamp").t = "str" /\ JGet(fields, "timestamp").s = "iso")

\* C20: every audit record the system emits has the persisted shape of the
\* contract: event_type, actor_id, resource_type, resource_id, timestamp,
\* success, details, client_ip and client_agent, none of them missing.
C20_AuditRecordShape ==
    \A i \in 1..Len(sink) :
        sink[i].chan \in AuditChannels => HasContractShape(sink[i].fields)

-----------------------------------------------------------------------------
(* Claims about what a failure of the codec shows *)

\* the texts a failure must not show: the keys, the plaintext, the ciphertext
\* handed to decrypt_phi and the message of the underlying exception
CodecSecrets ==
    Keys \cup {codec.plain.s, KeyRejected.text, NotAString.text}
         \cup (IF codec.enc.kind = "return" /\ codec.enc.val.tag = "token"
               THEN {TokenText(codec.enc.val)} ELSE {})
         \cup (IF codec.enc.kind = "return" /\ codec.enc.val.tag = "str"
               THEN {codec.enc.val.s} ELSE {})

\* C21: a failed encrypt or decrypt raises the same error whatever the
\* plaintext, ciphertext or key: a ValueError with the fixed generic message;
\* and each line it writes to the log is made of the fixed prefix and the type
\* of the exception only, never the key, the plaintext, the ciphertext or the
\* underlying message.
C21_ErrorIndependentOfSecrets ==
    /\ codec.enc.kind = "raise" =>
          codec.enc = Raise("ValueError", "Failed to encrypt sensitive data")
    /\ codec.dec.kind = "raise" =>
          codec.dec = Raise("ValueError", "Failed to decrypt sensitive data")
    /\ Len(codec.out) = (IF codec.enc.kind = "raise" THEN 1 ELSE 0)
                        + (IF codec.dec.kind = "raise" THEN 1 ELSE 0)
    /\ \A i \in 1..Len(codec.out) :
          /\ Len(codec.out[i]) = 2
          /\ codec.out[i][1] \in {"Encryption error", "Decryption error"}
          /\ codec.out[i][2] \in {"ValueError", "AttributeError", "InvalidToken"}
          /\ \A j \in 1..Len(codec.out[i]) : codec.out[i][j] \notin (CodecSecrets \ {""})

\* a ciphertext of one key failed to decrypt under another
C21_Witness ==
    /\ codec.stage = "decrypted"
    /\ codec.plain = Str("Jane")
    /\ codec.ekey = KeyA
    /\ codec.dkey = KeyB
    /\ codec.dec = Raise("ValueError", "Failed to decrypt sensitive data")
    /\ codec.out = <<<<"Decryption error", "InvalidToken">>>>

-----------------------------------------------------------------------------
(* Claims about reads of a record with a corrupt field *)

\* the name attributes whose slot holds a ciphertext that does not decrypt
CorruptNames ==
    {f \in {NameFields[i] : i \in 1..Len(NameFields)} :
        FieldGet(ent, key, f).kind = "raise"}

\* what a read of the attribute returns when its slot is intact
CorrectRead(f) ==
    IF ent[EncName(f)] = NoneV THEN Ret(NoneV) ELSE Ret(Str(NamePlain(f)))

\* C22: when the slot of one encrypted attribute is corrupt, reading that
\* attribute raises and changes nothing on the entity, and reading every other
\* attribute of the entity (full_name among them) still returns its value.
C22_DecryptFailureIsLocal ==
    [][(Cardinality(CorruptNames) = 1 /\ last'.op \in {"get", "full_name"}) =>
          /\ ent' = ent
          /\ \A i \in 1..Len(NameFields) :
                ReadName(NameFields[i]) =>
                    IF NameFields[i] \in CorruptNames
                    THEN last'.res.kind = "raise"
                    ELSE last'.res = CorrectRead(NameFields[i])
          /\ ReadFullName => last'.res.kind = "return"]_vars

-----------------------------------------------------------------------------
(* Claims about soft_delete on every entity class *)

\* C23: on an entity of every class built on BaseModel, whatever its other
\* fields, soft_delete(actor) completes without error and is_active reads
\* False afterwards.
C23_SoftDeleteOnEveryEntity ==
    [][SoftDeleteAny =>
          /\ last'.res = Ret(NoneV)
          /\ read_is_active(ent', clock') = BoolV(FALSE)]_vars

-----------------------------------------------------------------------------
(* Claims about the two middlewares *)

\* the access events among the records of a sequence
AccessEvents(recs) ==
    {j \in 1..Len(recs) : recs[j].chan = "security" /\ recs[j].event = "Access"}

\* dispatch logged that call_next raised
CallNextRaised(recs) ==
    \E j \in 1..Len(recs) :
        recs[j].chan = "middleware.audit" /\ recs[j].event = "Request processing failed"

\* C24: for every request through AuditMiddleware.dispatch whose logger calls
\* complete: on a sensitive path exactly one access event is emitted, in the
\* step in which call_next has finished and the response is returned, with
\* success=False exactly when call_next raised; on another path no access
\* event is emitted.
C24_OneAccessEventPerSensitiveRequest ==
    [][\A i \in 1..MaxRequests :
          (reqs[i].pc = "called" /\ reqs'[i].pc = "idle" /\ resp'.exc = "") =>
              IF is_sensitive_path(reqs[i].path)
              THEN /\ Cardinality(AccessEvents(sink')) = 1
                   /\ \A j \in AccessEvents(sink') :
                         /\ JGet(sink'[j].fields, "success") =
                                JBool(~CallNextRaised(sink'))
                         /\ JGet(sink'[j].fields, "resource") = JPath(reqs[i].path)
              ELSE AccessEvents(sink') = {}]_vars

\* a sensitive request whose call_next raised has been audited and answered
C24_Witness ==
    /\ resp.exc = ""
    /\ resp.status = 500
    /\ CallNextRaised(sink)
    /\ \E j \in AccessEvents(sink) : JGet(sink[j].fields, "success") = JBool(FALSE)

\* C28: two requests in AuditMiddleware.dispatch at the same time never have
\* the same request_id.
C28_RequestIdsDistinct ==
    \A i, j \in 1..MaxRequests :
        (i # j /\ reqs[i].pc = "called" /\ reqs[j].pc = "called") =>
            JFmt("req_", reqs[i].start) # JFmt("req_", reqs[j].start)

\* the response carries the six security headers
HasSecurityHeaders(headers) ==
    \A k \in 1..Len(security_headers.keys) :
        /\ JHas(headers, security_headers.keys[k])
        /\ JGet(headers, security_headers.keys[k]) = security_headers.items[k]

\* C29: every response SecurityMiddleware.dispatch returns (normal completion,
\* the 413 rejection, a handler that raised) carries the six security headers.
C29_EveryResponseHasSecurityHeaders ==
    [][\A i \in 1..MaxRequests, content_length \in ContentLengths,
          out \in Outcomes, fail \in SinkFailures :
          (/\ DispatchFinishCall(i, content_length, out, fail)
           /\ ~security_dispatch(content_length, out).out.raised) =>
              HasSecurityHeaders(security_dispatch(content_length, out).out.headers)]_vars

-----------------------------------------------------------------------------
(* Claims about the deny-list and the security events *)

\* the logical names of the PHI attributes of the entities
LogicalPhiNames == patient_phi_fields \cup insurance_encrypted_fields

\* in b, the sanitized a, every value under the name of a PHI attribute is
\* the redaction marker, at every level
RECURSIVE PhiNamesRedacted(_, _)
PhiNamesRedacted(a, b) ==
    a.t = "dict" =>
        \A i \in 1..Len(a.keys) :
            IF a.keys[i] \in LogicalPhiNames
            THEN b.items[i] = JRedacted
            ELSE PhiNamesRedacted(a.items[i], b.items[i])

\* C26: every logical PHI attribute name of the entities (Patient._phi_fields
\* and the EncryptedField names of PatientInsurance) is on the deny-list of
\* sanitize_log_data, so a value logged under such a name is redacted.
C26_PhiNamesOnDenyList ==
    \A i \in 1..Len(sink) :
        sink[i].chan = "sanitize_log_data" =>
            /\ PhiNamesRedacted(logdata, sink[i].fields)
            /\ LogicalPhiNames \subseteq phi_fields

\* C27: in the records of log_access_event and log_authentication_event the
\* record's own fields (resource, action, event_type, user_id, ip_address,
\* user_agent, success, timestamp) equal the caller's arguments, whatever keys
\* details has.
C27_OwnFieldsAreTheArguments ==
    \A i \in 1..Len(sink) :
        sink[i].chan = "security" =>
            /\ JGet(sink[i].fields, "user_id") = JStr("u1")
            /\ JGet(sink[i].fields, "ip_address") = ClientIp
            /\ JGet(sink[i].fields, "success") = JBool(sink[i].level = "info")
            /\ JGet(sink[i].fields, "timestamp") = JFmt("iso", clock)
            /\ sink[i].event = "Access" =>
                  /\ JGet(sink[i].fields, "resource") = JPath(<<"api", "v1", "patients">>)
                  /\ JGet(sink[i].fields, "action") = JStr("get")
            /\ sink[i].event = "Security" =>
                  /\ JGet(sink[i].fields, "event_type") = JStr("login")
                  /\ JGet(sink[i].fields, "user_agent") = JStr("agent")

-----------------------------------------------------------------------------
(* Claims about the agent's metrics and the orchestrator's task lists *)

\* C25: after any sequence of execute_task calls total_tasks equals
\* successful_tasks + failed_tasks, and a call that reaches the task executor
\* adds one to total_tasks and one to exactly one of successful_tasks and
\* failed_tasks, the one of the returned status; a call that does not reach
\* it leaves the metrics alone.
C25_MetricsCountEveryTask ==
    [][/\ agent'.performance_metrics.total_tasks =
              agent'.performance_metrics.successful_tasks +
              agent'.performance_metrics.failed_tasks
       /\ agent' # agent =>
             LET m == agent.performance_metrics
                 n == agent'.performance_metrics
             IN CASE agent'.returned = "completed" ->
                         /\ n.total_tasks = m.total_tasks + 1
                         /\ n.successful_tasks = m.successful_tasks + 1
                         /\ n.failed_tasks = m.failed_tasks
                  [] agent'.returned = "failed" ->
                         /\ n.total_tasks = m.total_tasks + 1
                         /\ n.successful_tasks = m.successful_tasks
                         /\ n.failed_tasks = m.failed_tasks + 1
                  [] OTHER -> n = m]_vars

\* the agent has completed a task and then failed one
C25_Witness ==
    /\ agent.returned = "failed"
    /\ agent.performance_metrics.successful_tasks = 1
    /\ agent.performance_metrics.failed_tasks = 1
    /\ agent.performance_metrics.total_tasks = 2

\* how many times x is in the list q
Occurrences(q, x) == Cardinality({i \in 1..Len(q) : q[i] = x})

\* the tasks create_task has made
CreatedTasks == {t \in 1..MaxTasks : orch.tasks[t].created}

\* C30: after any sequence of create_task and execute_task calls every created
\* task is exactly once in task_queue and completed_tasks taken together,
\* pending_tasks + completed_tasks of get_status is the number of tasks
\* created, and a task's status is "completed" or "failed" exactly when it is
\* in completed_tasks.
C30_EveryTaskListedOnce ==
    /\ \A t \in CreatedTasks :
          /\ Occurrences(orch.task_queue, t) + Occurrences(orch.completed_tasks, t) = 1
          /\ orch.tasks[t].status \in {"completed", "failed"} <=>
                InList(orch.completed_tasks, t)
    /\ get_status(orch).pending_tasks + get_status(orch).completed_tasks =
          Cardinality(CreatedTasks)

=============================================================================
